---- MODULE Spec2Model ----
(***************************************************************************)
(* redilock: a distributed lock on a Redis store.                          *)
(*                                                                         *)
(* One lock client (redilock.sync_redilock.DistributedLock or              *)
(* redilock.async_redilock.DistributedLock) is shared by NumCallers        *)
(* threads / tasks.  A step of a caller is one operation on the keyspace   *)
(* of the store together with the local code around it; what touches no    *)
(* key (the connect section, ping, loading the script) is taken with the   *)
(* call's next keyspace operation.                                         *)
(*                                                                         *)
(* Units: durations (ttl, block, interval) are Python seconds, kept here   *)
(* as integer microseconds; store expiries are milliseconds, as in         *)
(* SET ... PX.  Instants are kept relative to the current instant:         *)
(* time.time() reads 0 and Tick shifts every pending instant by TickMs.    *)
(***************************************************************************)
EXTENDS Integers, Sequences, FiniteSets, TLC

\* ---------------------------------------------------------------- bounds
NumCallers == 2
MaxTokens == 2
TickMs == 250
\* the conditional sets one lock() call is followed through (no call of the
\* specifications below comes to make that many)
MaxAttempts == 6

Procs == 1..NumCallers
TickUs == TickMs * 1000

\* ------------------------------------------------------- Python values
None == [t |-> "None"]
Num(x) == [t |-> "num", v |-> x]
Bool(b) == [t |-> "bool", v |-> b]
Str(s) == [t |-> "str", v |-> s]
Exc(name) == [t |-> "exc", v |-> name]

\* bool(x)
Truthy(x) ==
    CASE x.t = "None" -> FALSE
      [] x.t = "num" -> x.v # 0
      [] x.t = "bool" -> x.v
      [] x.t = "str" -> x.v # <<>>
      [] OTHER -> TRUE

\* isinstance(x, (int, float)): bool is a subclass of int
IsNumber(x) == x.t \in {"num", "bool"}

\* the number a numeric value stands for, in microseconds when a duration
NumVal(x) == IF x.t = "bool" THEN (IF x.v THEN 1000000 ELSE 0) ELSE x.v

\* x or y
PyOr(x, y) == IF Truthy(x) THEN x ELSE y

\* ------------------------------------------------------------- strings
\* a str is the sequence of its characters
DELIM == ":"
LOCK_PREFIX == <<"_", "L", "O", "C", "K">>
HexChars == <<"0", "1", "2", "3", "4", "5", "6", "7",
              "8", "9", "a", "b", "c", "d", "e", "f">>

\* uuid.uuid4().hex of the n-th mint: distinct mints give distinct suffixes
UuidHex(n) == <<HexChars[n]>>

\* str.split(":")
RECURSIVE Split(_)
Split(s) ==
    IF \A i \in 1..Len(s) : s[i] # DELIM
    THEN <<s>>
    ELSE LET i == CHOOSE j \in 1..Len(s) :
                      s[j] = DELIM /\ \A k \in 1..(j - 1) : s[k] # DELIM
         IN  <<SubSeq(s, 1, i - 1)>> \o Split(SubSeq(s, i + 1, Len(s)))

\* f"_LOCK:{lock_name}:{uuid.uuid4().hex}"
_lockname2token(lock_name, hex) ==
    LOCK_PREFIX \o <<DELIM>> \o lock_name \o <<DELIM>> \o hex

_token2lockname(unlock_secret_token) ==
    IF unlock_secret_token.t # "str"
    THEN <<>>
    ELSE LET delim == Split(unlock_secret_token.v)
         IN  IF Len(delim) # 3 \/ delim[1] # LOCK_PREFIX
             THEN <<>>
             ELSE delim[2]

\* ------------------------------------------------------------ inputs
LockNames == {<<"R">>, <<"a", ":", "b">>}
\* (ttl, block, interval) of the lock() calls
LockArgs == {<<None, Bool(TRUE), None>>,
             <<Num(250500), Bool(FALSE), None>>}
\* ttl of the __call__ scopes
ScopeTtls == {Num(250500)}
ClientTtl == Num(250000)
_DEFAULT_INTERVAL == 250000

\* tokens a caller can present that no acquire returned
WrongTokens == {Str(_lockname2token(<<"R">>, <<"f">>))}

VARIABLES
    store,          \* the Redis keyspace: lock name -> None | [val, pttl]
    scriptCached,   \* the Redis script cache holds UNLOCK_SCRIPT
    variant,        \* which client class: "sync" | "async"
    _redis,         \* self._redis: None | Str(connection)
    _ttl,           \* self._ttl
    _interval,      \* self._interval
    connections,    \* connections created so far
    uuidCount,      \* uuid4() calls so far
    th,             \* per caller: position and locals of the running call
    issued,         \* tokens returned by lock(), in order
    returned        \* the last step: what it sent to the store, and the
                    \* call that returned in it, if any

vars == <<store, scriptCached, variant, _redis, _ttl, _interval,
          connections, uuidCount, th, issued, returned>>

client == <<variant, _ttl, _interval>>

\* ------------------------------------------------------------ the store
\* GET key
RedisGet(st, key) ==
    IF key \in DOMAIN st /\ st[key] # None THEN Str(st[key].val) ELSE None

\* the reply of a SET that takes every answer of the store for success
RedisSetReply_AlwaysOk(st, key, px) ==
    IF px <= 0 THEN Exc("ResponseError") ELSE Bool(TRUE)

\* SET key value NX PX px: reply
RedisSetReply(st, key, px) ==
    IF px <= 0 THEN Exc("ResponseError")
    ELSE IF st[key] = None THEN Bool(TRUE) ELSE None

\* a SET without NX: the value is written over the record of the holder
RedisSetStore_NoNx(st, key, value, px) ==
    IF px > 0
    THEN [st EXCEPT ![key] = [val |-> value, pttl |-> px]]
    ELSE st

\* a SET NX that stores the key for the value
RedisSetStore_StoresKey(st, key, value, px) ==
    IF px > 0 /\ st[key] = None
    THEN [st EXCEPT ![key] = [val |-> key, pttl |-> px]]
    ELSE st

\* a SET NX that leaves PX out: the record has no expiry
RedisSetStore_NoPx(st, key, value, px) ==
    IF px > 0 /\ st[key] = None
    THEN [st EXCEPT ![key] = [val |-> value, pttl |-> -1]]
    ELSE st

\* a SET NX that, refused, starts the expiry of the record afresh
RedisSetStore_Extends(st, key, value, px) ==
    IF px > 0 /\ st[key] = None
    THEN [st EXCEPT ![key] = [val |-> value, pttl |-> px]]
    ELSE IF px > 0 /\ st[key].pttl >= 0
    THEN [st EXCEPT ![key] = [@ EXCEPT !.pttl = px]]
    ELSE st

\* SET key value NX PX px: keyspace afterwards
RedisSetStore(st, key, value, px) ==
    IF px > 0 /\ st[key] = None
    THEN [st EXCEPT ![key] = [val |-> value, pttl |-> px]]
    ELSE st

\* an unlock script that reports a deletion whatever it found
UnlockScriptReply_AlwaysOne(st, lock_name, lock_secret_token) == 1

\* UNLOCK_SCRIPT: reply
UnlockScriptReply(st, lock_name, lock_secret_token) ==
    IF RedisGet(st, lock_name) = lock_secret_token THEN 1 ELSE 0

\* an unlock script that deletes the key without comparing the token
UnlockScriptStore_NoCompare(st, lock_name, lock_secret_token) ==
    IF lock_name \in DOMAIN st
    THEN [st EXCEPT ![lock_name] = None]
    ELSE st

\* an unlock script that compares the token and forgets the deletion
UnlockScriptStore_NoDel(st, lock_name, lock_secret_token) == st

\* UNLOCK_SCRIPT: keyspace afterwards
UnlockScriptStore(st, lock_name, lock_secret_token) ==
    IF RedisGet(st, lock_name) = lock_secret_token
    THEN [st EXCEPT ![lock_name] = None]
    ELSE st

\* a conversion that rounds up to whole milliseconds
PxOf_RoundsUp(ttl) == (NumVal(ttl) + 999) \div 1000

\* int(ttl * 1000): seconds to whole milliseconds (here from microseconds)
PxOf(ttl) == NumVal(ttl) \div 1000

\* ------------------------------------------------------------- frames
IdleFrame ==
    [pc |-> "idle", op |-> "none", scoped |-> FALSE,
     lock_name |-> <<>>, ttl |-> None, block |-> None, interval |-> None,
     end_wait |-> None, unlock_secret_token |-> None, ret |-> None,
     sleep |-> 0, given |-> <<>>, attempts |-> 0, sleeps |-> 0,
     loads |-> 0, outer |-> <<>>]

\* the frame of lock(lock_name, ttl, block, interval) at its entry; given
\* keeps the ttl and interval of the call, which _prepare_lock rebinds
LockFrame(lock_name, ttl, block, interval, scoped) ==
    [IdleFrame EXCEPT !.op = "lock", !.scoped = scoped,
                      !.lock_name = lock_name, !.ttl = ttl,
                      !.block = block, !.interval = interval,
                      !.given = <<ttl, interval>>]

\* the frame of unlock at its entry
UnlockFrame(lock_name, unlock_secret_token) ==
    [IdleFrame EXCEPT !.op = "unlock", !.lock_name = lock_name,
                      !.unlock_secret_token = unlock_secret_token]

\* the frame of __call__ while its block runs; outer is <<>>, or the lock
\* name and the token of the scope this scope is nested in
BlockFrame(lock_name, unlock_secret_token, outer) ==
    [IdleFrame EXCEPT !.pc = "block",
                      !.scoped = TRUE,
                      !.lock_name = lock_name,
                      !.unlock_secret_token = unlock_secret_token,
                      !.outer = outer]

\* where the caller is once the call with frame f is over: between calls,
\* or, after a call made inside the block of a scope, in that block
Back(f) ==
    IF f.outer = <<>> THEN IdleFrame
    ELSE BlockFrame(f.outer[1], f.outer[2], <<>>)

\* no call returned in this step, and nothing was sent to the store
NoReturn ==
    [op |-> "none", scoped |-> FALSE, lock_name |-> <<>>, given |-> <<>>,
     block |-> None, interval |-> None, end_wait |-> None,
     unlock_secret_token |-> None, waited |-> FALSE, attempts |-> 0,
     sleeps |-> 0, loads |-> 0, ops |-> <<>>, sets |-> <<>>,
     result |-> None]

\* "if not self._redis: self._connect()": what the entry of a call with
\* frame f sends to the store (a call woken from its sleep is past it)
Connects(f) ==
    IF f.pc = "sleep" \/ Truthy(_redis) THEN <<>> ELSE <<"connect", "ping">>

\* the call with frame f went to sleep in this step, having sent ops
SleepOf(f, ops) == [NoReturn EXCEPT !.ops = ops]

\* the call with frame f returned (or raised) value in this step, having
\* sent ops to the store (waited: the call had slept in the acquire loop)
ReturnOf(f, ops, value) ==
    [op |-> f.op, scoped |-> f.scoped, lock_name |-> f.lock_name,
     given |-> f.given, block |-> f.block, interval |-> f.interval,
     end_wait |-> f.end_wait,
     unlock_secret_token |-> f.unlock_secret_token,
     waited |-> (f.pc = "sleep"), attempts |-> f.attempts,
     sleeps |-> f.sleeps, loads |-> f.loads, ops |-> ops, sets |-> <<>>,
     result |-> value]

\* "self._redis.set(lock_name, unlock_secret_token, px=int(ttl * 1000),
\* nx=True)" was sent in the step r tells of: its arguments
SetSent(r, f, px) ==
    [r EXCEPT !.sets = <<[key |-> f.lock_name,
                          value |-> f.unlock_secret_token,
                          px |-> px, nx |-> TRUE]>>]

Init ==
    /\ store = [k \in LockNames |-> None]
    /\ scriptCached = TRUE
    /\ variant \in {"sync", "async"}
    /\ _redis = None
    /\ _ttl = ClientTtl
    /\ _interval = Num(_DEFAULT_INTERVAL)
    /\ connections = 0
    /\ uuidCount = 0
    /\ th = [p \in Procs |-> IdleFrame]
    /\ issued = <<>>
    /\ returned = NoReturn

\* ----------------------------------------------------- lock(): helpers
\* a __call__ that enters the block whatever lock() came to
LockReturn_AlwaysEnters(f, value) ==
    IF f.scoped
    THEN BlockFrame(f.lock_name, value, f.outer)
    ELSE Back(f)

\* where the caller is once lock() handed over its outcome: after a plain
\* call it is between calls; in __call__ an exception propagates and the
\* block is never entered, anything else is bound to unlock_secret_token
\* and the block is entered
LockReturn(f, value) ==
    IF f.scoped /\ value.t # "exc"
    THEN BlockFrame(f.lock_name, value, f.outer)
    ELSE Back(f)

\* a deadline test with > for >=
GiveUp_Strict(block, end_wait) ==
    ~Truthy(block) \/ (end_wait # None /\ 0 > NumVal(end_wait))

\* a deadline test that forgets "if not block"
GiveUp_WaitsAnyway(block, end_wait) ==
    end_wait # None /\ 0 >= NumVal(end_wait)

\* a deadline test that takes "no deadline" for a deadline that has passed
GiveUp_NoDeadlineIsPast(block, end_wait) ==
    ~Truthy(block) \/ end_wait = None \/ 0 >= NumVal(end_wait)

\* the deadline test of the acquire loop; an absolute end_wait is never 0.0,
\* so "end_wait and ..." is "end_wait is not None and ..."
GiveUp(block, end_wait) ==
    ~Truthy(block) \/ (end_wait # None /\ 0 >= NumVal(end_wait))

\* a _prepare_lock without the assertion on a numeric block
_prepare_lock_NoBlockCheck(f, n) ==
    LET ttl == PyOr(f.ttl, _ttl)
        interval == PyOr(f.interval, _interval)
    IN  IF ~(IsNumber(ttl) /\ NumVal(ttl) > 0)
        THEN Exc("AssertionError")
        ELSE IF ~(IsNumber(interval) /\ NumVal(interval) > 0)
        THEN Exc("AssertionError")
        ELSE [f EXCEPT !.ttl = ttl,
                       !.interval = interval,
                       !.end_wait = IF f.block.t = "bool" THEN None
                                    ELSE Num(0 + NumVal(f.block)),
                       !.unlock_secret_token =
                           Str(_lockname2token(f.lock_name, UuidHex(n)))]

\* _prepare_lock on the frame f of a lock() call, n-th uuid: the assertion
\* that fails, or the frame with the prepared locals
_prepare_lock(f, n) ==
    LET ttl == PyOr(f.ttl, _ttl)
        interval == PyOr(f.interval, _interval)
    IN  IF ~(IsNumber(ttl) /\ NumVal(ttl) > 0)
        THEN Exc("AssertionError")
        ELSE IF ~(IsNumber(interval) /\ NumVal(interval) > 0)
        THEN Exc("AssertionError")
        ELSE IF f.block.t # "bool" /\ ~(IsNumber(f.block) /\ NumVal(f.block) > 0)
        THEN Exc("AssertionError")
        ELSE [f EXCEPT !.ttl = ttl,
                       !.interval = interval,
                       !.end_wait = IF f.block.t = "bool" THEN None
                                    ELSE Num(0 + NumVal(f.block)),
                       !.unlock_secret_token =
                           Str(_lockname2token(f.lock_name, UuidHex(n)))]

\* a pass of the acquire loop that goes on without the sleep
SetStep_Spins(p, f0) ==
    LET f == [f0 EXCEPT !.attempts = @ + 1]
        px == PxOf(f.ttl)
        ret == RedisSetReply(store, f.lock_name, px)
    IN  /\ store' = RedisSetStore(store, f.lock_name,
                                  f.unlock_secret_token.v, px)
        /\ IF ret.t = "exc"
           THEN /\ th' = [th EXCEPT ![p] = LockReturn(f, ret)]
                /\ returned' = SetSent(
                       ReturnOf(f, Connects(f) \o <<"set">>, ret),
                       f, px)
                /\ UNCHANGED issued
           ELSE IF Truthy(ret)
           THEN /\ th' = [th EXCEPT ![p] =
                             LockReturn(f, f.unlock_secret_token)]
                /\ returned' = SetSent(ReturnOf(f, Connects(f) \o <<"set">>,
                                         f.unlock_secret_token), f, px)
                /\ issued' = Append(issued,
                       [token |-> f.unlock_secret_token.v,
                        key |-> f.lock_name,
                        px_left |-> px,
                        released |-> FALSE])
           ELSE /\ IF GiveUp(f.block, f.end_wait)
                   THEN /\ th' = [th EXCEPT ![p] = LockReturn(f, Bool(FALSE))]
                        /\ returned' = SetSent(ReturnOf(f, Connects(f) \o <<"set">>,
                                                 Bool(FALSE)), f, px)
                   ELSE /\ th' = [th EXCEPT ![p] =
                                     [f EXCEPT !.pc = "sleep", !.ret = ret,
                                               !.sleep = 0]]
                        /\ returned' = SetSent(
                               SleepOf(f, Connects(f) \o <<"set">>),
                               f, px)
                /\ UNCHANGED issued

\* a pass of the acquire loop that takes an error of the store for a
\* refusal
SetStep_RetriesOnError(p, f0) ==
    LET f == [f0 EXCEPT !.attempts = @ + 1]
        px == PxOf(f.ttl)
        ret == RedisSetReply(store, f.lock_name, px)
    IN  /\ store' = RedisSetStore(store, f.lock_name,
                                  f.unlock_secret_token.v, px)
        /\ IF ret.t = "exc"
           THEN /\ th' = [th EXCEPT ![p] =
                             [f EXCEPT !.pc = "sleep", !.ret = ret,
                                       !.sleep = NumVal(f.interval)]]
                /\ returned' = SetSent(
                       SleepOf(f, Connects(f) \o <<"set">>),
                       f, px)
                /\ UNCHANGED issued
           ELSE IF Truthy(ret)
           THEN /\ th' = [th EXCEPT ![p] =
                             LockReturn(f, f.unlock_secret_token)]
                /\ returned' = SetSent(ReturnOf(f, Connects(f) \o <<"set">>,
                                         f.unlock_secret_token), f, px)
                /\ issued' = Append(issued,
                       [token |-> f.unlock_secret_token.v,
                        key |-> f.lock_name,
                        px_left |-> px,
                        released |-> FALSE])
           ELSE /\ IF GiveUp(f.block, f.end_wait)
                   THEN /\ th' = [th EXCEPT ![p] = LockReturn(f, Bool(FALSE))]
                        /\ returned' = SetSent(ReturnOf(f, Connects(f) \o <<"set">>,
                                                 Bool(FALSE)), f, px)
                   ELSE /\ th' = [th EXCEPT ![p] =
                                     [f EXCEPT !.pc = "sleep", !.ret = ret,
                                               !.sleep = NumVal(f.interval)]]
                        /\ returned' = SetSent(
                               SleepOf(f, Connects(f) \o <<"set">>),
                               f, px)
                /\ UNCHANGED issued

\* one pass of the acquire loop for the prepared frame f: the conditional
\* set, "if ret: return unlock_secret_token", the deadline test, and the
\* start of the sleep
SetStep(p, f0) ==
    LET f == [f0 EXCEPT !.attempts = @ + 1]
        px == PxOf(f.ttl)
        ret == RedisSetReply(store, f.lock_name, px)
    IN  /\ store' = RedisSetStore(store, f.lock_name,
                                  f.unlock_secret_token.v, px)
        /\ IF ret.t = "exc"
           THEN /\ th' = [th EXCEPT ![p] = LockReturn(f, ret)]
                /\ returned' = SetSent(
                       ReturnOf(f, Connects(f) \o <<"set">>, ret),
                       f, px)
                /\ UNCHANGED issued
           ELSE IF Truthy(ret)
           THEN /\ th' = [th EXCEPT ![p] =
                             LockReturn(f, f.unlock_secret_token)]
                /\ returned' = SetSent(ReturnOf(f, Connects(f) \o <<"set">>,
                                         f.unlock_secret_token), f, px)
                /\ issued' = Append(issued,
                       [token |-> f.unlock_secret_token.v,
                        key |-> f.lock_name,
                        px_left |-> px,
                        released |-> FALSE])
           ELSE /\ IF GiveUp(f.block, f.end_wait)
                   THEN /\ th' = [th EXCEPT ![p] = LockReturn(f, Bool(FALSE))]
                        /\ returned' = SetSent(ReturnOf(f, Connects(f) \o <<"set">>,
                                                 Bool(FALSE)), f, px)
                   ELSE /\ th' = [th EXCEPT ![p] =
                                     [f EXCEPT !.pc = "sleep", !.ret = ret,
                                               !.sleep = NumVal(f.interval)]]
                        /\ returned' = SetSent(
                               SleepOf(f, Connects(f) \o <<"set">>),
                               f, px)
                /\ UNCHANGED issued

\* lock() from _prepare_lock to the end of the first pass of the loop
PrepareAndSet(p, f) ==
    LET r == _prepare_lock(f, uuidCount + 1)
    IN  IF "pc" \in DOMAIN r
        THEN /\ uuidCount' = uuidCount + 1
             /\ SetStep(p, r)
        ELSE /\ th' = [th EXCEPT ![p] = LockReturn(f, r)]
             /\ returned' = ReturnOf(f, Connects(f), r)
             /\ UNCHANGED <<uuidCount, store, issued>>

\* --------------------------------------------------- unlock(): helpers
\* what _RediScript.run sends: evalsha, and on NoScriptError script_load
\* and evalsha again
ScriptOps ==
    IF scriptCached THEN <<"evalsha">>
    ELSE <<"evalsha", "script_load", "evalsha">>

\* _RediScript.run for the frame f: evalsha, and on NoScriptError
\* script_load and evalsha again.  Only the evalsha that runs UNLOCK_SCRIPT
\* touches the keyspace, so the round trips are one step, taken when the
\* script runs: keyspace, history and return
RunScript(p, f0) ==
    LET f == [f0 EXCEPT !.attempts = IF scriptCached THEN @ + 1 ELSE @ + 2,
                        !.loads = IF scriptCached THEN @ ELSE @ + 1]
        reply == UnlockScriptReply(store, f.lock_name, f.unlock_secret_token)
    IN  /\ scriptCached' = TRUE
        /\ store' = UnlockScriptStore(store, f.lock_name, f.unlock_secret_token)
        /\ issued' = [n \in 1..Len(issued) |->
                         IF reply = 1 /\ Str(issued[n].token) = f.unlock_secret_token
                         THEN [issued[n] EXCEPT !.released = TRUE, !.px_left = 0]
                         ELSE issued[n]]
        /\ th' = [th EXCEPT ![p] = Back(f)]
        /\ returned' = ReturnOf(f, Connects(f) \o ScriptOps,
                                 Bool(1 = reply))

\* the lock() calls a caller may make: plain ones, and the one of __call__
LockFrames(scoped) ==
    IF scoped
    THEN {LockFrame(lock_name, ttl, Bool(TRUE), None, TRUE) :
              lock_name \in LockNames, ttl \in ScopeTtls}
    ELSE {LockFrame(lock_name, a[1], a[2], a[3], FALSE) :
              lock_name \in LockNames, a \in LockArgs}

\* the tokens lock() has returned so far; whoever has a token may present it
IssuedTokens == {Str(issued[n].token) : n \in 1..Len(issued)}

\* the unlock calls a caller may make.  sync: unlock(lock_name,
\* unlock_secret_token).  async: unlock(unlock_secret_token), the lock name
\* is parsed from the token.
UnlockFrames ==
    IF variant = "sync"
    THEN {UnlockFrame(lock_name, unlock_secret_token) :
              lock_name \in LockNames, unlock_secret_token \in WrongTokens}
         \cup {UnlockFrame(issued[n].key, Str(issued[n].token)) :
                   n \in 1..Len(issued)}
    ELSE {UnlockFrame(_token2lockname(unlock_secret_token), unlock_secret_token) :
              unlock_secret_token \in IssuedTokens \cup WrongTokens}

\* async unlock: "if not lock_name: return False", before any store contact
NoLockName(f) == variant = "async" /\ ~Truthy(Str(f.lock_name))

\* a _connect without "if self._redis: return"
_connect_NoRecheck ==
    /\ _redis' = Str(<<"c", "o", "n", "n">>)
    /\ connections' = connections + 1

\* "if not self._redis: self._connect()" at the head of lock() and unlock().
\* Under the connect mutex: return when the connection is there already,
\* else create it; then ping.  None of it touches a key: it is taken
\* together with the call's first store operation.
_connect ==
    IF Truthy(_redis)
    THEN UNCHANGED <<_redis, connections>>
    ELSE /\ _redis' = Str(<<"c", "o", "n", "n">>)
         /\ connections' = connections + 1

\* unlock() with frame f from its entry
UnlockEntry(p, f) ==
    IF NoLockName(f)
    THEN /\ th' = [th EXCEPT ![p] = Back(f)]
         /\ returned' = ReturnOf(f, <<>>, Bool(FALSE))
         /\ UNCHANGED <<uuidCount, store, issued, _redis, connections>>
         /\ UNCHANGED scriptCached
    ELSE /\ _connect
         /\ RunScript(p, f)
         /\ UNCHANGED uuidCount

LockEntry(p, scoped) ==
    /\ th[p].pc = "idle"
    /\ uuidCount < MaxTokens
    /\ _connect
    /\ \E f \in LockFrames(scoped) : PrepareAndSet(p, f)
    /\ UNCHANGED <<client, scriptCached>>

\* ----------------------------------------------------------- actions
\* DistributedLock.lock(lock_name, ttl, block, interval)
Lock(p) == LockEntry(p, FALSE)

\* DistributedLock.__call__(lock_name, ttl): self.lock(lock_name, ttl)
Call(p) == LockEntry(p, TRUE)

\* DistributedLock.unlock
Unlock(p) ==
    /\ th[p].pc = "idle"
    /\ \E f \in UnlockFrames : UnlockEntry(p, f)
    /\ UNCHANGED client

\* lock(): time.sleep(interval) / asyncio.sleep(interval) is over and the
\* loop makes its next pass
Retry(p) ==
    /\ th[p].pc = "sleep"
    /\ th[p].sleep <= 0
    /\ th[p].attempts < MaxAttempts
    /\ SetStep(p, th[p])
    /\ UNCHANGED <<client, scriptCached, _redis, connections, uuidCount>>

\* a __call__ without the finally clause
BlockExit_NoUnlock(p) ==
    /\ th[p].pc = "block"
    /\ th' = [th EXCEPT ![p] = IdleFrame]
    /\ returned' = NoReturn
    /\ UNCHANGED <<store, issued, _redis, connections, uuidCount>>
    /\ UNCHANGED <<client, scriptCached>>

\* __call__: the block ends, normally or with an error, and the finally
\* clause calls unlock: unlock(lock_name, unlock_secret_token) in the sync
\* client, unlock(unlock_secret_token) in the async one
BlockExit(p) ==
    /\ th[p].pc = "block"
    /\ UnlockEntry(p, [th[p] EXCEPT
                          !.op = "unlock",
                          !.lock_name =
                              IF variant = "sync" THEN @
                              ELSE _token2lockname(th[p].unlock_secret_token)])
    /\ UNCHANGED client

\* ------------------------------------------------------- environment
\* tokens that lock() returned, that no unlock() has released and whose
\* record has not reached its expiry
Live(n) == ~issued[n].released /\ issued[n].px_left > 0

\* the process of a lock holder dies inside the block of its scope
Crash(p) ==
    /\ th[p].pc = "block"
    /\ \E n \in 1..Len(issued) :
           Str(issued[n].token) = th[p].unlock_secret_token /\ Live(n)
    /\ th' = [th EXCEPT ![p] = [IdleFrame EXCEPT !.pc = "crashed"]]
    /\ returned' = NoReturn
    /\ UNCHANGED <<store, scriptCached, client, _redis, connections,
                   uuidCount, issued>>

\* what is left of a duration, d later
Shift(x, d) == IF x <= d THEN 0 ELSE x - d

\* TickMs of time pass: records lose TickMs of their expiry and vanish at 0
\* (a record without expiry, pttl -1, stays), sleeps and deadlines come
\* TickMs closer
Tick ==
    /\ store' = [k \in LockNames |->
                    IF store[k] = None THEN None
                    ELSE IF store[k].pttl < 0 THEN store[k]
                    ELSE IF store[k].pttl <= TickMs THEN None
                    ELSE [store[k] EXCEPT !.pttl = @ - TickMs]]
    /\ th' = [p \in Procs |->
                 [th[p] EXCEPT !.sleep = Shift(@, TickUs),
                               !.sleeps = IF th[p].sleep > 0
                                             /\ th[p].sleep <= TickUs
                                          THEN @ + 1 ELSE @,
                               !.end_wait = IF @ = None THEN None
                                            ELSE Num(Shift(@.v, TickUs))]]
    /\ issued' = [n \in 1..Len(issued) |->
                     [issued[n] EXCEPT !.px_left = Shift(@, TickMs)]]
    /\ <<store, th, issued>>' # <<store, th, issued>>
    /\ returned' = NoReturn
    /\ UNCHANGED <<client, scriptCached, _redis, connections, uuidCount>>

Next ==
    \/ \E p \in Procs : Lock(p)
    \/ \E p \in Procs : Call(p)
    \/ \E p \in Procs : Retry(p)
    \/ \E p \in Procs : Unlock(p)
    \/ \E p \in Procs : BlockExit(p)
    \/ \E p \in Procs : Crash(p)
    \/ Tick

Spec == Init /\ [][Next]_vars

\* the acquire loop runs on only if the scheduler keeps running the waiters
\* and time keeps passing
FairSpec ==
    /\ Spec
    /\ WF_vars(Tick)
    /\ \A p \in Procs : WF_vars(Retry(p))

\* ---------------------------------------------- one round trip a step
\* Two more specifications of the same client, in which every command sent
\* to the store is a step of its own and may fail: StepSpec, where the
\* calls follow one another and the store may lose its script cache, and
\* ConnSpec, where the callers make their calls at the same time and
\* interleave inside _connect.

\* (ttl, block, interval) of the lock() calls; 0.0005 s is PX 0, which the
\* store rejects
StepLockArgs ==
    {<<None, Bool(TRUE), None>>,
     <<None, Bool(FALSE), None>>,
     <<Num(500), Bool(TRUE), None>>}

StepLockFrames ==
    {LockFrame(<<"R">>, a[1], a[2], a[3], FALSE) : a \in StepLockArgs}

StepUnlockFrames ==
    IF variant = "sync"
    THEN {UnlockFrame(<<"R">>, unlock_secret_token) :
              unlock_secret_token \in IssuedTokens \cup WrongTokens}
    ELSE {UnlockFrame(_token2lockname(unlock_secret_token), unlock_secret_token) :
              unlock_secret_token \in IssuedTokens \cup WrongTokens}

\* no call is running
AllIdle == \A p \in Procs : th[p].pc = "idle"

\* a direct call of _connect()
ConnectFrame == [IdleFrame EXCEPT !.op = "connect"]

\* the lock() calls that have not reached _prepare_lock yet
Unminted ==
    {p \in Procs : th[p].op = "lock"
                       /\ th[p].pc \in {"connect", "locked", "ping", "ready"}}

\* caller p is at pc with its frame, having sent ops in this step
GoOn(p, pc, ops) ==
    /\ th' = [th EXCEPT ![p] = [@ EXCEPT !.pc = pc]]
    /\ returned' = SleepOf(th[p], ops)

\* the call of caller p ends with value (returned or raised), having sent
\* ops in this step
Ends(p, f, ops, value) ==
    /\ th' = [th EXCEPT ![p] = IdleFrame]
    /\ returned' = ReturnOf(f, ops, value)

\* the entry of lock() and unlock(): the async unlock parses the token
\* first; then "if not self._redis: self._connect()"; and the entry of a
\* direct _connect()
Enter(p, frames) ==
    /\ th[p].pc = "idle"
    /\ \E f \in frames :
           /\ f.op = "lock"
                  => uuidCount + Cardinality(Unminted) < MaxTokens
           /\ IF f.op = "unlock" /\ NoLockName(f)
              THEN Ends(p, f, <<>>, Bool(FALSE))
              ELSE /\ th' = [th EXCEPT ![p] =
                                [f EXCEPT !.pc =
                                    IF f.op = "connect" \/ ~Truthy(_redis)
                                    THEN "connect" ELSE "ready"]]
                   /\ returned' = NoReturn
    /\ UNCHANGED <<store, scriptCached, client, _redis, connections,
                   uuidCount, issued>>

\* a call is made when no other call is running
StepEnter(p) ==
    /\ AllIdle
    /\ Enter(p, StepLockFrames \cup StepUnlockFrames \cup {ConnectFrame})

\* the calls of ConnSpec: a lock() without wait, an unlock() with a token
\* no lock() returned, a direct _connect()
ConnFrames ==
    {LockFrame(<<"R">>, None, Bool(FALSE), None, FALSE), ConnectFrame}
        \cup {UnlockFrame(IF variant = "sync" THEN <<"R">>
                          ELSE _token2lockname(unlock_secret_token),
                          unlock_secret_token) :
                  unlock_secret_token \in WrongTokens}

\* a call is made while other calls are running
ConnEnter(p) == Enter(p, ConnFrames)

\* _connect: "with self._connect_lock" is entered when no caller is in it
TakeMutex(p) ==
    /\ th[p].pc = "connect"
    /\ \A q \in Procs : th[q].pc # "locked"
    /\ GoOn(p, "locked", <<>>)
    /\ UNCHANGED <<store, scriptCached, client, _redis, connections,
                   uuidCount, issued>>

\* _connect, inside the mutex: "if self._redis: return", which leaves
\* _connect without the ping; else the connection is created and the
\* mutex left
InMutex(p) ==
    /\ th[p].pc = "locked"
    /\ _connect
    /\ IF Truthy(_redis)
       THEN IF th[p].op = "connect"
            THEN Ends(p, th[p], <<>>, None)
            ELSE GoOn(p, "ready", <<>>)
       ELSE GoOn(p, "ping", <<"connect">>)
    /\ UNCHANGED <<store, scriptCached, client, uuidCount, issued>>

\* _connect: self._redis.ping(), which raises when the store is not there
Ping(p) ==
    /\ th[p].pc = "ping"
    /\ \/ IF th[p].op = "connect"
          THEN Ends(p, th[p], <<"ping">>, None)
          ELSE GoOn(p, "ready", <<"ping">>)
       \/ Ends(p, th[p], <<"ping">>, Exc("ConnectionError"))
    /\ UNCHANGED <<store, scriptCached, client, _redis, connections,
                   uuidCount, issued>>

\* the conditional set of the frame f raises: the store is not there
SetFails(p, f) ==
    /\ th' = [th EXCEPT ![p] = IdleFrame]
    /\ returned' = SetSent(ReturnOf([f EXCEPT !.attempts = @ + 1],
                                    <<"set">>, Exc("ConnectionError")),
                           f, PxOf(f.ttl))
    /\ UNCHANGED <<store, issued>>

\* lock(): _prepare_lock and the first pass of the loop
StepSet(p) ==
    /\ th[p].pc = "ready"
    /\ th[p].op = "lock"
    /\ \/ PrepareAndSet(p, [th[p] EXCEPT !.pc = "idle"])
       \/ LET r == _prepare_lock(th[p], uuidCount + 1)
          IN  /\ "pc" \in DOMAIN r
              /\ uuidCount' = uuidCount + 1
              /\ SetFails(p, [r EXCEPT !.pc = "idle"])
    /\ UNCHANGED <<scriptCached, client, _redis, connections>>

\* lock(): the sleep is over and the loop makes its next pass
StepRetry(p) ==
    /\ th[p].pc = "sleep"
    /\ th[p].sleep <= 0
    /\ th[p].attempts < MaxAttempts
    /\ \/ SetStep(p, th[p])
       \/ SetFails(p, th[p])
    /\ UNCHANGED <<scriptCached, client, _redis, connections, uuidCount>>

\* _RediScript.run: the first evalsha.  The script runs if the store has
\* it; else NoScriptError is caught
Evalsha(p) ==
    /\ th[p].pc = "ready"
    /\ th[p].op = "unlock"
    /\ \/ /\ scriptCached
          /\ RunScript(p, [th[p] EXCEPT !.pc = "idle"])
       \/ /\ ~scriptCached
          /\ th' = [th EXCEPT ![p] = [@ EXCEPT !.pc = "load",
                                               !.attempts = @ + 1]]
          /\ returned' = SleepOf(th[p], <<"evalsha">>)
          /\ UNCHANGED <<store, scriptCached, issued>>
       \/ /\ Ends(p, [th[p] EXCEPT !.attempts = @ + 1], <<"evalsha">>,
                  Exc("ConnectionError"))
          /\ UNCHANGED <<store, scriptCached, issued>>
    /\ UNCHANGED <<client, _redis, connections, uuidCount>>

\* _RediScript.run: script_load after NoScriptError
Load(p) ==
    /\ th[p].pc = "load"
    /\ \/ /\ scriptCached' = TRUE
          /\ th' = [th EXCEPT ![p] = [@ EXCEPT !.pc = "evalsha2",
                                               !.loads = @ + 1]]
          /\ returned' = SleepOf(th[p], <<"script_load">>)
       \/ /\ Ends(p, [th[p] EXCEPT !.loads = @ + 1], <<"script_load">>,
                  Exc("ConnectionError"))
          /\ UNCHANGED scriptCached
    /\ UNCHANGED <<store, client, _redis, connections, uuidCount, issued>>

\* a run that loads the script again when the second evalsha misses it
Evalsha2_LoadsAgain(p) ==
    /\ th[p].pc = "evalsha2"
    /\ \/ /\ scriptCached
          /\ RunScript(p, [th[p] EXCEPT !.pc = "idle"])
       \/ /\ ~scriptCached
          /\ th' = [th EXCEPT ![p] = [@ EXCEPT !.pc = "load",
                                               !.attempts = @ + 1]]
          /\ returned' = SleepOf(th[p], <<"evalsha">>)
          /\ UNCHANGED <<store, scriptCached, issued>>
    /\ UNCHANGED <<client, _redis, connections, uuidCount>>

\* _RediScript.run: the evalsha after script_load; whatever it comes to is
\* what run comes to
Evalsha2(p) ==
    /\ th[p].pc = "evalsha2"
    /\ \/ /\ scriptCached
          /\ RunScript(p, [th[p] EXCEPT !.pc = "idle"])
       \/ /\ Ends(p, [th[p] EXCEPT !.attempts = @ + 1], <<"evalsha">>,
                  IF scriptCached THEN Exc("ConnectionError")
                  ELSE Exc("NoScriptError"))
          /\ UNCHANGED <<store, scriptCached, issued>>
    /\ UNCHANGED <<client, _redis, connections, uuidCount>>

\* the store loses its script cache (SCRIPT FLUSH, a restart)
ScriptFlush ==
    /\ scriptCached
    /\ scriptCached' = FALSE
    /\ returned' = NoReturn
    /\ UNCHANGED <<store, client, _redis, connections, uuidCount, th, issued>>

StepNext ==
    \/ \E p \in Procs : StepEnter(p)
    \/ \E p \in Procs : TakeMutex(p)
    \/ \E p \in Procs : InMutex(p)
    \/ \E p \in Procs : Ping(p)
    \/ \E p \in Procs : StepSet(p)
    \/ \E p \in Procs : StepRetry(p)
    \/ \E p \in Procs : Evalsha(p)
    \/ \E p \in Procs : Load(p)
    \/ \E p \in Procs : Evalsha2(p)
    \/ ScriptFlush
    \/ Tick

StepInit ==
    /\ store = [k \in LockNames |-> None]
    /\ scriptCached = FALSE
    /\ variant \in {"sync", "async"}
    /\ _redis = None
    /\ _ttl = ClientTtl
    /\ _interval = Num(_DEFAULT_INTERVAL)
    /\ connections = 0
    /\ uuidCount = 0
    /\ th = [p \in Procs |-> IdleFrame]
    /\ issued = <<>>
    /\ returned = NoReturn

StepSpec == StepInit /\ [][StepNext]_vars

ConnNext ==
    \/ \E p \in Procs : ConnEnter(p)
    \/ \E p \in Procs : TakeMutex(p)
    \/ \E p \in Procs : InMutex(p)
    \/ \E p \in Procs : Ping(p)
    \/ \E p \in Procs : StepSet(p)
    \/ \E p \in Procs : Evalsha(p)
    \/ \E p \in Procs : Load(p)
    \/ \E p \in Procs : Evalsha2(p)

ConnSpec == StepInit /\ [][ConnNext]_vars

\* ------------------------------------------- one call at a time, timed
\* A second specification of the same client: the calls follow one another,
\* with every kind of argument, and time passes only while the caller
\* sleeps in the acquire loop, by exactly the sleep.

\* (ttl, block, interval) of the lock() calls
SeqLockArgs ==
    {<<None, Bool(TRUE), None>>,
     <<None, Bool(FALSE), None>>,
     <<Num(250500), Num(400000), None>>,
     <<Num(250500), Num(500000), None>>,
     <<Num(250500), Num(400000), Num(100000)>>,
     <<Num(0), Bool(FALSE), None>>,
     <<Num(-250000), Bool(FALSE), None>>,
     <<None, Bool(FALSE), Num(0)>>,
     <<None, Bool(FALSE), Num(-250000)>>,
     <<None, Num(0), None>>,
     <<None, Num(-1000000), None>>}

\* ttl of the __call__ scopes
SeqScopeTtls == {None, Num(250500), Num(-250000)}

\* tokens of another format: no delimiter, another prefix, two fields
MalformedTokens ==
    {Str(<<"w">>),
     Str(<<"X", ":", "R", ":", "f">>),
     Str(LOCK_PREFIX \o <<":", "R">>)}

\* what a caller of the async client can pass for a token that is no string
NonStringTokens == {None, Num(5)}

\* the record of a lock another client holds on key k for one second
ForeignRecord(k) ==
    [val |-> _lockname2token(k, <<"e">>), pttl |-> PxOf(Num(1000000))]

SeqInit ==
    /\ \E held \in {{}, {<<"R">>}} :
           store = [k \in LockNames |->
                       IF k \in held THEN ForeignRecord(k) ELSE None]
    /\ scriptCached = FALSE
    /\ variant \in {"sync", "async"}
    /\ _redis = None
    /\ _ttl \in {None, ClientTtl}
    /\ _interval = Num(_DEFAULT_INTERVAL)
    /\ connections = 0
    /\ uuidCount = 0
    /\ th = [p \in Procs |-> IdleFrame]
    /\ issued = <<>>
    /\ returned = NoReturn

SeqLockFrames(scoped) ==
    IF scoped
    THEN {LockFrame(lock_name, ttl, Bool(TRUE), None, TRUE) :
              lock_name \in LockNames, ttl \in SeqScopeTtls}
    ELSE {LockFrame(lock_name, a[1], a[2], a[3], FALSE) :
              lock_name \in LockNames, a \in SeqLockArgs}

SeqUnlockFrames ==
    IF variant = "sync"
    THEN {UnlockFrame(lock_name, unlock_secret_token) :
              lock_name \in LockNames,
              unlock_secret_token \in WrongTokens \cup MalformedTokens}
         \cup {UnlockFrame(issued[n].key, Str(issued[n].token)) :
                   n \in 1..Len(issued)}
    ELSE {UnlockFrame(_token2lockname(unlock_secret_token), unlock_secret_token) :
              unlock_secret_token \in IssuedTokens \cup WrongTokens
                  \cup MalformedTokens \cup NonStringTokens}

SeqLockEntry(p, scoped) ==
    /\ AllIdle
    /\ uuidCount < MaxTokens
    /\ _connect
    /\ \E f \in SeqLockFrames(scoped) : PrepareAndSet(p, f)
    /\ UNCHANGED <<client, scriptCached>>

\* DistributedLock.lock(lock_name, ttl, block, interval)
SeqLock(p) == SeqLockEntry(p, FALSE)

\* DistributedLock.__call__(lock_name, ttl): self.lock(lock_name, ttl)
SeqCall(p) == SeqLockEntry(p, TRUE)

\* DistributedLock.unlock
SeqUnlock(p) ==
    /\ AllIdle
    /\ \E f \in SeqUnlockFrames : UnlockEntry(p, f)
    /\ UNCHANGED client

\* a __call__ on the same client inside the block of a __call__ of caller p
SeqNest(p) ==
    /\ th[p].pc = "block"
    /\ th[p].outer = <<>>
    /\ \A q \in Procs \ {p} : th[q].pc = "idle"
    /\ uuidCount < MaxTokens
    /\ _connect
    /\ \E f \in SeqLockFrames(TRUE) :
           PrepareAndSet(p, [f EXCEPT !.outer =
                                <<th[p].lock_name,
                                  th[p].unlock_secret_token>>])
    /\ UNCHANGED <<client, scriptCached>>

\* time.sleep(interval) / asyncio.sleep(interval) of caller p: the sleep
\* passes.  Records come that much closer to their expiry and vanish at
\* it, the deadline of the caller comes that much closer and may be passed
\* (then what is left of it is negative)
Sleep(p) ==
    /\ th[p].pc = "sleep"
    /\ th[p].sleep > 0
    /\ LET d == th[p].sleep
           ms == d \div 1000
       IN  /\ store' = [k \in LockNames |->
                           IF store[k] = None THEN None
                           ELSE IF store[k].pttl < 0 THEN store[k]
                           ELSE IF store[k].pttl <= ms THEN None
                           ELSE [store[k] EXCEPT !.pttl = @ - ms]]
           /\ th' = [th EXCEPT ![p] =
                         [@ EXCEPT !.sleep = 0,
                                   !.sleeps = @ + 1,
                                   !.end_wait = IF @ = None THEN None
                                                ELSE Num(@.v - d)]]
           /\ issued' = [n \in 1..Len(issued) |->
                            [issued[n] EXCEPT !.px_left = Shift(@, ms)]]
    /\ returned' = NoReturn
    /\ UNCHANGED <<client, scriptCached, _redis, connections, uuidCount>>

\* the task that runs lock() of the async client is cancelled while it is
\* suspended in "await asyncio.sleep(interval)": CancelledError is raised
\* there and leaves lock(), which catches nothing
Cancel(p) ==
    /\ variant = "async"
    /\ th[p].pc = "sleep"
    /\ th' = [th EXCEPT ![p] = LockReturn(th[p], Exc("CancelledError"))]
    /\ returned' = ReturnOf(th[p], <<>>, Exc("CancelledError"))
    /\ UNCHANGED <<store, scriptCached, client, _redis, connections,
                   uuidCount, issued>>

SeqNext ==
    \/ \E p \in Procs : SeqLock(p)
    \/ \E p \in Procs : SeqCall(p)
    \/ \E p \in Procs : SeqNest(p)
    \/ \E p \in Procs : Sleep(p)
    \/ \E p \in Procs : Retry(p)
    \/ \E p \in Procs : SeqUnlock(p)
    \/ \E p \in Procs : BlockExit(p)
    \/ \E p \in Procs : Cancel(p)

SeqSpec == SeqInit /\ [][SeqNext]_vars

\* a sleep ends, and the caller whose sleep is over runs
SeqFairSpec ==
    /\ SeqSpec
    /\ \A p \in Procs : WF_vars(Sleep(p)) /\ WF_vars(Retry(p))

\* ------------------------------------------------- reading a behaviour
Issued == 1..Len(issued)

\* the tokens lock() has returned for key k
IssuedOn(k) == {n \in Issued : issued[n].key = k}

\* the last token lock() returned for key k (0: none yet)
LastOn(k) == IF IssuedOn(k) = {} THEN 0
             ELSE CHOOSE n \in IssuedOn(k) : \A m \in IssuedOn(k) : m <= n

\* this step, a lock() returned a token
Acquires == Len(issued') = Len(issued) + 1

\* a lock() returned False in the last step
LockRefused ==
    /\ returned.op = "lock"
    /\ returned.result = Bool(FALSE)

\* a lock() with a numeric block returned False in the last step
TimedOut ==
    /\ LockRefused
    /\ returned.block.t = "num"

\* the time between the start of the lock() that returned in the last step
\* and its return: end_wait was block later than the start, and
\* returned.end_wait is how far the return is from it
Elapsed == NumVal(returned.block) - NumVal(returned.end_wait)

\* the sleep of caller p is over and its deadline has passed
SleptPastDeadline(p) ==
    /\ th[p].pc = "sleep"
    /\ th[p].sleep <= 0
    /\ th[p].end_wait # None
    /\ 0 >= NumVal(th[p].end_wait)

\* a number that is 0 or negative
NotPositive(x) == x.t = "num" /\ x.v <= 0

\* a lock() returned or raised in the last step
LockCame == returned.op = "lock"

\* the last step raised AssertionError
Asserted == returned.result = Exc("AssertionError")

\* the value a call asked for: the one it gave, else the one of the client
Asked(given, default) == IF given # None THEN given ELSE default

\* the unlock() of the finally clause of a __call__ returned in the last step
ScopeUnlocked == returned.op = "unlock" /\ returned.scoped

\* the lock() of a __call__ returned or raised in the last step
ScopeLockCame == returned.op = "lock" /\ returned.scoped

\* the keys lock() returned unlock_secret_token for (one at most)
KeysOf(unlock_secret_token) ==
    {issued[n].key : n \in {m \in Issued :
                                Str(issued[m].token) = unlock_secret_token}}

\* what the store and the connection to it raise
StoreErrors == {"ConnectionError", "ResponseError", "NoScriptError"}

\* a command of the last step raised an error of the store
StoreFailed ==
    returned.result.t = "exc" /\ returned.result.v \in StoreErrors

\* caller p is in the block of a scope on the key of the scope around it
NestedOnSameKey(p) ==
    /\ th[p].pc = "block"
    /\ th[p].outer # <<>>
    /\ th[p].outer[1] = th[p].lock_name

\* how many blocks of __call__ scopes the caller with frame f is in
BlocksAround(f) ==
    (IF f.pc = "block" THEN 1 ELSE 0) + (IF f.outer # <<>> THEN 1 ELSE 0)

\* ceil(b / i) of two positive durations
Ceil(b, i) == (b + i - 1) \div i

\* the lock() of caller p has a numeric block and is in the acquire loop
TimedWait(p) ==
    /\ th[p].op = "lock"
    /\ th[p].pc = "sleep"
    /\ th[p].block.t = "num"

\* the last step cancelled a lock() in its sleep
Cancelled == LockCame /\ returned.result = Exc("CancelledError")

\* the store holds a record with value token
Stored(token) ==
    \E k \in LockNames : store[k] # None /\ Str(store[k].val) = token

\* how many times the last step sent cmd to the store
Sent(cmd) ==
    Cardinality({i \in 1..Len(returned.ops) : returned.ops[i] = cmd})

\* the conditional sets the last step sent, with their arguments
SetsSent == {returned.sets[i] : i \in 1..Len(returned.sets)}

\* the effective ttl (microseconds) of the lock() call that sent the
\* conditional set c in the last step: the call returned in that step, or
\* it sleeps now
TtlOf(c) ==
    IF returned.op = "lock"
    THEN {NumVal(PyOr(returned.given[1], _ttl))}
    ELSE {NumVal(th[p].ttl) :
              p \in {q \in Procs : /\ th[q].pc = "sleep"
                                   /\ th[q].unlock_secret_token = c.value}}

\* c is a conditional set on the lock name with a token minted for it
SetsTokenOnKey(c) ==
    /\ c.nx
    /\ c.key \in LockNames
    /\ \E n \in 1..uuidCount :
           c.value = Str(_lockname2token(c.key, UuidHex(n)))
    /\ returned.op = "lock"
           => /\ c.key = returned.lock_name
              /\ returned.result.t = "str"
                     => /\ returned.result = c.value
                        /\ store[c.key] = [val |-> c.value.v, pttl |-> c.px]
    /\ TtlOf(c) # {}


\* ------------------------------------------------------------- claims

\* C1: while a token that lock() returned for key K is neither released nor
\* past the expiry of its record, no conditional set on K succeeds: no other
\* lock() call is returned a token for K.
C1_RefusedWhileHeld ==
    [][\A n \in Issued :
          (Live(n) /\ Acquires) => issued'[Len(issued')].key # issued[n].key]_vars

\* C1 witness: a no-wait lock() on K came back refused while the token
\* lock() returned for K is live
C1_Witness ==
    \E n \in Issued :
        /\ Live(n)
        /\ LockRefused
        /\ returned.lock_name = issued[n].key

\* C2: in every reachable state, for every key, at most one token returned
\* by lock() is neither released nor expired.
C2_AtMostOneLiveToken ==
    \A k \in LockNames : Cardinality({n \in IssuedOn(k) : Live(n)}) <= 1

\* C2 witness: two callers went for the same key, one holds the live token
\* and the other, with a token of its own minted, is waiting
C2_Witness ==
    \E p \in Procs, n \in Issued :
        /\ Live(n)
        /\ th[p].pc = "sleep"
        /\ th[p].lock_name = issued[n].key
        /\ th[p].unlock_secret_token # Str(issued[n].token)

\* the caller is inside the block of a scope whose lock has not expired
InBlockInTime(p) ==
    /\ th[p].pc = "block"
    /\ \E n \in Issued : /\ Str(issued[n].token) = th[p].unlock_secret_token
                         /\ issued[n].px_left > 0

\* C3: two callers are never inside the protected block of a scope on the
\* same key unless one of them has stayed in its block beyond the expiry of
\* its lock.
C3_BlocksExclusive ==
    \A p, q \in Procs :
        (p # q /\ InBlockInTime(p) /\ InBlockInTime(q))
            => th[p].lock_name # th[q].lock_name

\* C3 witness: one caller is inside its block, in time, while another
\* caller's scope on the same key waits at the door
C3_Witness ==
    \E p, q \in Procs :
        /\ InBlockInTime(p)
        /\ th[q].pc = "sleep" /\ th[q].scoped
        /\ th[q].lock_name = th[p].lock_name

\* the token lock() returned as issued[n] was presented to unlock() in the
\* last step, addressed to the key it was acquired for
Released(n) ==
    /\ returned.op = "unlock"
    /\ returned.unlock_secret_token = Str(issued[n].token)
    /\ variant = "sync" => returned.lock_name = issued[n].key

\* the token lock() returned for its key has run out of its TTL unreleased
Expired(n) == ~issued[n].released /\ issued[n].px_left = 0

\* C4: for every key, unlock with the token lock() returned for it, while
\* that token is the value stored under the key, returns True and removes
\* the record; unlock with a token that an unlock already released returns
\* False.
C4_ReleaseTrueExactlyOnce ==
    [][\A n \in Issued :
          Released(n)' =>
              /\ RedisGet(store, issued[n].key) = Str(issued[n].token)
                     => /\ returned'.result = Bool(TRUE)
                        /\ store'[issued[n].key] = None
              /\ issued[n].released => returned'.result = Bool(FALSE)]_vars

\* C5: unlock with a token that is not the value stored under the key the
\* call addresses (another value is stored, or none) returns False and
\* leaves every record of the store as it was.
C5_WrongTokenNoEffect ==
    [][(returned'.op = "unlock"
            /\ RedisGet(store, returned'.lock_name) # returned'.unlock_secret_token)
          => (returned'.result = Bool(FALSE) /\ store' = store)]_vars

\* C5 witness: an unlock came back False on a key that holds the record of
\* another token
C5_Witness ==
    /\ returned.op = "unlock"
    /\ returned.result = Bool(FALSE)
    /\ RedisGet(store, returned.lock_name) \notin {None, returned.unlock_secret_token}

\* C6: when the TTL of a token has run out and another lock() call has
\* acquired the key since, unlock with the old token returns False and the
\* record of the later call stays.
C6_StaleTokenSparesNewHolder ==
    [][\A n, m \in Issued :
          (Released(n)' /\ Expired(n) /\ Live(m) /\ issued[m].key = issued[n].key)
              => /\ returned'.result = Bool(FALSE)
                 /\ RedisGet(store', issued[m].key) = Str(issued[m].token)]_vars

\* C6 witness: an expired token was presented while the token
\* of a later lock() on the same key is live, and the script ran
C6_Witness ==
    \E n, m \in Issued :
        /\ Released(n) /\ Expired(n) /\ Live(m)
        /\ issued[m].key = issued[n].key
        /\ returned.lock_name = issued[n].key

\* a lock() with block=False on key k returned in the last step
NoWaitOn(k) ==
    /\ returned.op = "lock"
    /\ returned.block = Bool(FALSE)
    /\ returned.lock_name = k

\* C7: when the last token lock() returned for a key has been released by
\* an unlock that returned True (no lock() acquired the key since), a
\* lock() with block=False on that key returns a token, on its only attempt.
C7_FreeAfterRelease ==
    [][\A k \in LockNames :
          (NoWaitOn(k)' /\ LastOn(k) # 0 /\ issued[LastOn(k)].released)
              => (returned'.result.t = "str" /\ ~returned'.waited)]_vars

\* C7 witness: a block=False lock() was returned a token for a key whose
\* previous token had been released
C7_Witness ==
    \E k \in LockNames, n \in Issued :
        /\ NoWaitOn(k)
        /\ LastOn(k) # 0 /\ n < LastOn(k)
        /\ issued[n].key = k /\ issued[n].released
        /\ returned.result = Str(issued[LastOn(k)].token)

\* C8: when the last token lock() returned for a key was never released and
\* its TTL has run out, a lock() with block=False on that key returns a
\* token.
C8_FreeAfterExpiry ==
    [][\A k \in LockNames :
          (NoWaitOn(k)' /\ LastOn(k) # 0 /\ Expired(LastOn(k)))
              => returned'.result.t = "str"]_vars

\* C8 witness: a block=False lock() was returned a token for a key whose
\* previous token had expired unreleased
C8_Witness ==
    \E k \in LockNames, n \in Issued :
        /\ NoWaitOn(k)
        /\ LastOn(k) # 0 /\ n < LastOn(k)
        /\ issued[n].key = k /\ Expired(n)
        /\ returned.result = Str(issued[LastOn(k)].token)

\* caller w waits in a lock() with block=True and every other caller has
\* crashed
WaitsAlone(w) ==
    /\ th[w].pc = "sleep"
    /\ th[w].block = Bool(TRUE)
    /\ \A q \in Procs \ {w} : th[q].pc = "crashed"

\* the last step returned its token to a lock() that had been waiting, and
\* caller w is out of its call
GotToken(w) ==
    /\ returned.op = "lock"
    /\ returned.waited
    /\ returned.result.t = "str"
    /\ issued # <<>>
    /\ returned.result = Str(issued[Len(issued)].token)
    /\ th[w].pc \in {"idle", "block"}

\* C9: a lock() with block=True that waits for a key whose holder has
\* crashed, with no other caller about, is eventually returned a token,
\* provided the waiter keeps being scheduled and time passes.
C9_WaiterOutlivesCrash ==
    \A w \in Procs : WaitsAlone(w) ~> GotToken(w)

\* C9 witness: the waiter was returned its token after the holder of the key
\* had crashed and the holder's token had expired unreleased
C9_Witness ==
    \E w \in Procs, n \in Issued :
        /\ GotToken(w)
        /\ returned.block = Bool(TRUE)
        /\ issued[n].key = returned.lock_name
        /\ Expired(n)
        /\ \A q \in Procs \ {w} : th[q].pc = "crashed"

\* C10: a lock() with block=True never returns False: what it returns is a
\* token, also inside __call__, whose block is entered with a token.
C10_BlockForeverNeverRefused ==
    /\ (returned.op = "lock" /\ returned.block = Bool(TRUE))
           => returned.result.t = "str"
    /\ \A p \in Procs : th[p].pc = "block" => th[p].unlock_secret_token.t = "str"

\* C10 witness: a lock() with block=True was returned a token after at
\* least one attempt had failed
C10_Witness ==
    /\ returned.op = "lock"
    /\ returned.block = Bool(TRUE)
    /\ returned.waited
    /\ returned.result.t = "str"

\* C11: a lock() with block=False whose first conditional set is refused
\* returns False at once: it made exactly one attempt and never slept.
C11_NoWaitSingleAttempt ==
    /\ \A p \in Procs :
           (th[p].op = "lock" /\ th[p].block = Bool(FALSE))
               => th[p].pc # "sleep"
    /\ (LockRefused /\ returned.block = Bool(FALSE))
           => (~returned.waited /\ Sent("set") = 1)

\* C11 witness: a lock() with block=False came back False from its first
\* pass
C11_Witness ==
    /\ LockRefused
    /\ returned.block = Bool(FALSE)
    /\ Sent("set") = 1

\* C12: a lock() with a numeric block B and interval I that finds the key
\* held at every attempt returns False no earlier than B and earlier than
\* B + I after it started.
C12_TimedOutWithinOneInterval ==
    TimedOut =>
        /\ Elapsed >= NumVal(returned.block)
        /\ Elapsed < NumVal(returned.block) + NumVal(returned.interval)

\* C12 witness: a lock() with block 0.5 s and interval 0.25 s returned
\* False exactly 0.5 s after it started
C12_Witness ==
    /\ TimedOut
    /\ returned.waited
    /\ returned.block = Num(500000)
    /\ Elapsed = 500000

\* C13: when the sleep of a lock() with a numeric block ends and the
\* deadline has passed, the call returns False without another conditional
\* set: nothing is sent to the store after the deadline.
C13_NoAttemptAfterDeadline ==
    [][\A p \in Procs :
          (SleptPastDeadline(p) /\ th'[p] # th[p])
              => (LockRefused' /\ Sent("set")' = 0)]_vars

\* C14: a lock() called with a ttl or an interval that is 0 or negative
\* raises the assertion error whatever the defaults of the client are, and
\* sends nothing to the store: no connect, no ping, no conditional set.
C14_BadDurationFailsFast ==
    (/\ LockCame
     /\ NotPositive(returned.given[1]) \/ NotPositive(returned.given[2]))
        => (Asserted /\ returned.ops = <<>>)

\* C15: a lock() called with a numeric block that is 0 or negative raises
\* the assertion error and sends no conditional set; a lock() called with
\* block True or False and a positive ttl and interval in effect does not
\* raise it.
C15_BadBlockFailsFast ==
    /\ (LockCame /\ NotPositive(returned.block))
           => (Asserted /\ Sent("set") = 0)
    /\ (/\ LockCame
        /\ returned.block.t = "bool"
        /\ Truthy(PyOr(returned.given[1], _ttl))
        /\ ~NotPositive(PyOr(returned.given[1], _ttl))
        /\ ~NotPositive(PyOr(returned.given[2], _interval)))
           => ~Asserted

\* C15 witness: a lock() with block 0 on a client with a default ttl raised
\* the assertion error
C15_Witness ==
    /\ LockCame
    /\ returned.block = Num(0)
    /\ _ttl # None
    /\ Asserted
    /\ Sent("set") = 0

\* C16: ttl and interval are resolved at each call: a lock() that gives
\* none and has no ttl of the client raises the assertion error; the record
\* of a lock() that returned a token expires after the ttl the call gave,
\* or after the ttl of the client if it gave none; a lock() sleeps the
\* interval the call gave, or the interval of the client (0.25 s unless
\* the constructor was given one) if it gave none.
C16_CallValueOverridesDefault ==
    /\ (LockCame /\ returned.given[1] = None /\ _ttl = None) => Asserted
    /\ (LockCame /\ returned.result.t = "str")
           => store[returned.lock_name].pttl
                  = PxOf(Asked(returned.given[1], _ttl))
    /\ \A p \in Procs :
           th[p].pc = "sleep"
               => th[p].interval = Asked(th[p].given[2], _interval)

\* C17: in a __call__ scope the block is entered in the step in which the
\* one lock() of the scope returned, with what it returned as the token;
\* the caller leaves the block only by the unlock() of the finally clause
\* (or by dying), whether the block ended normally or raised; and every
\* unlock() of a scope is the one call that ends a block, made with the
\* token of that block.
C17_ScopeReleasesOnceAtExit ==
    [][/\ \A p \in Procs :
             (th[p].pc # "block" /\ th'[p].pc = "block")
                 => /\ ScopeLockCame'
                    /\ th'[p].unlock_secret_token = returned'.result
       /\ \A p \in Procs :
             (th[p].pc = "block" /\ th'[p] # th[p])
                 => \/ th'[p].pc = "crashed"
                    \/ /\ th'[p].pc = "idle"
                       /\ ScopeUnlocked'
                       /\ returned'.unlock_secret_token
                              = th[p].unlock_secret_token
       /\ ScopeUnlocked'
             => \E p \in Procs :
                    /\ th[p].pc = "block"
                    /\ th'[p].pc = "idle"
                    /\ th[p].unlock_secret_token
                           = returned'.unlock_secret_token]_vars

\* C17 witness: the unlock() of a scope released the token of its block
C17_Witness ==
    /\ ScopeUnlocked
    /\ returned.result = Bool(TRUE)
    /\ \E n \in Issued :
           /\ Str(issued[n].token) = returned.unlock_secret_token
           /\ Released(n)

\* C18: a caller is in the block of a __call__ scope only with a token that
\* lock() returned; when the lock() of a scope raises (or returns no
\* token), no block is entered in that step, and an unlock() of a scope
\* that follows is the one of a scope around it, made with a token that
\* lock() returned.
C18_BlockOnlyWithToken ==
    /\ [](\A p \in Procs :
             th[p].pc = "block"
                 => th[p].unlock_secret_token \in IssuedTokens)
    /\ [][(ScopeLockCame' /\ returned'.result.t # "str")
             => \A p \in Procs :
                    BlocksAround(th'[p]) <= BlocksAround(th[p])]_vars
    /\ [][(ScopeLockCame /\ returned.result.t # "str" /\ ScopeUnlocked')
             => /\ returned'.unlock_secret_token \in IssuedTokens
                /\ \E p \in Procs : BlocksAround(th[p]) > 0]_vars

\* C18 witness: the lock() of a scope raised the assertion error and the
\* caller is not in the block
C18_Witness ==
    /\ ScopeLockCame
    /\ Asserted
    /\ AllIdle

\* C19: the lock name parsed from a token that lock() returned for key K
\* is exactly K, whatever K is.
C19_TokenRoundTrip ==
    \A n \in Issued :
        _token2lockname(Str(issued[n].token)) = issued[n].key

\* C20: an unlock() with a token of another format, or with a token that
\* is no string, returns False and sends nothing to the store, in the sync
\* client and in the async one.
C20_MalformedTokenNoStoreContact ==
    (/\ returned.op = "unlock"
     /\ returned.unlock_secret_token \in MalformedTokens \cup NonStringTokens)
        => (returned.result = Bool(FALSE) /\ returned.ops = <<>>)

\* C21: the sync and the async client do the same: an unlock() of a token
\* that lock() returned for key K returns, and leaves in the store, what
\* the unlock script gives for K and the token, which is what the sync
\* unlock(K, token) returns and leaves, whichever client made the call.
C21_UnlockSameInBothClients ==
    [][returned'.op = "unlock"
          => \A k \in KeysOf(returned'.unlock_secret_token) :
                 /\ returned'.result =
                        Bool(1 = UnlockScriptReply(
                                     store, k, returned'.unlock_secret_token))
                 /\ store' = UnlockScriptStore(
                                 store, k, returned'.unlock_secret_token)]_vars

\* C22: a client is constructed without a connection; no client ever
\* creates a second one, however its callers interleave in their first
\* calls and whoever calls _connect() on a connected client; a connection
\* is created only inside the connect mutex by a caller that finds none;
\* and whenever a command was sent to the store there is one.
C22_ConnectsLazilyOnce ==
    /\ (connections = 0 /\ _redis = None)
    /\ [](connections <= 1)
    /\ []((Sent("ping") + Sent("set") + Sent("evalsha") > 0)
             => connections = 1)
    /\ [][connections' # connections
             => \E p \in Procs : th[p].pc = "locked" /\ ~Truthy(_redis)]_vars

\* C22 witness: two callers made their first call at the same time: one
\* created the connection, the other is inside the connect mutex and finds
\* it there
C22_Witness ==
    \E p, q \in Procs :
        /\ p # q
        /\ th[p].op = "lock"
        /\ th[p].pc = "locked"
        /\ th[q].op = "unlock"
        /\ th[q].pc \in {"ping", "ready"}
        /\ Truthy(_redis)
        /\ connections = 1

\* C23: the unlock script is run by its hash.  If the store has the script,
\* the one evalsha runs it, nothing is loaded and the call returns.  If the
\* store reports it missing, the script is loaded once and evalsha is sent
\* once more, and what that second evalsha comes to is what the call
\* returns: no unlock() sends more than two evalsha and one script_load.
C23_LoadOnceAndRetryOnce ==
    /\ [](returned.op = "unlock"
             => (returned.attempts <= 2 /\ returned.loads <= 1))
    /\ [][\A p \in Procs :
             (th[p].op = "unlock" /\ th'[p] # th[p])
                 => /\ (th[p].pc = "ready" /\ scriptCached)
                           => /\ th'[p].pc = "idle"
                              /\ returned'.attempts = 1
                              /\ returned'.loads = 0
                              /\ Sent("script_load")' = 0
                              /\ Sent("evalsha")' = 1
                    /\ (th[p].pc = "ready" /\ ~scriptCached
                           /\ returned'.result.t # "exc")
                           => (th'[p].pc = "load" /\ Sent("evalsha")' = 1)
                    /\ (th[p].pc = "load" /\ returned'.result.t # "exc")
                           => /\ th'[p].pc = "evalsha2"
                              /\ th'[p].loads = 1
                              /\ Sent("script_load")' = 1
                    /\ th[p].pc = "evalsha2"
                           => /\ th'[p].pc = "idle"
                              /\ returned'.op = "unlock"
                              /\ returned'.attempts = 2
                              /\ returned'.loads = 1
                              /\ Sent("evalsha")' = 1
                              /\ returned'.result.t # "exc"
                                     => returned'.result =
                                            Bool(1 = UnlockScriptReply(
                                                store, th[p].lock_name,
                                                th[p].unlock_secret_token))
          ]_vars

\* C23 witness: an unlock() found the script missing, loaded it, ran it
\* with the second evalsha and released its token
C23_Witness ==
    /\ returned.op = "unlock"
    /\ returned.attempts = 2
    /\ returned.loads = 1
    /\ returned.result = Bool(TRUE)

\* C24: when the connection, the ping, the conditional set or the script
\* raises, the lock() or unlock() that sent it ends in that step with that
\* error; the acquire loop goes to sleep for another attempt only after a
\* conditional set that found the key held, never after an error.
C24_StoreErrorsPropagate ==
    [][\A p \in Procs :
          th'[p] # th[p]
              => /\ StoreFailed'
                        => /\ th'[p].pc = "idle"
                           /\ returned'.op = th[p].op
                 /\ (th'[p].pc = "sleep"
                        /\ th'[p].attempts = th[p].attempts + 1)
                        => /\ ~StoreFailed'
                           /\ Sent("set")' = 1
                           /\ store[th'[p].lock_name] # None]_vars

\* C24 witness: a lock() that had slept for a held key got a connection
\* error from its next conditional set and ended with it
C24_Witness ==
    /\ LockCame
    /\ returned.waited
    /\ returned.result = Exc("ConnectionError")
    /\ AllIdle

\* C25: the lock is not re-entrant: a caller is in the block of a scope on
\* key K nested in its own scope on K only when the token of the outer
\* scope has expired, and a scope on K that the caller opens in the block
\* of its scope on K while the outer token is live does not enter its
\* block in that step: its lock() is left waiting or ends without a token.
C25_NotReentrant ==
    /\ [](\A p \in Procs :
             NestedOnSameKey(p)
                 => \A n \in Issued :
                        Str(issued[n].token) = th[p].outer[2] => Expired(n))
    /\ [][\A p \in Procs :
             (/\ th[p].pc = "block"
              /\ th[p].outer = <<>>
              /\ \E n \in Issued :
                     /\ Str(issued[n].token) = th[p].unlock_secret_token
                     /\ Live(n)
              /\ th'[p].outer # <<>>
              /\ th'[p].lock_name = th[p].lock_name)
                 => /\ th'[p].pc = "sleep"
                    /\ th'[p].sleep > 0
                    /\ uuidCount' = uuidCount + 1]_vars

\* C25 witness: the inner scope on the key of the outer scope is in its
\* block, after its lock() slept until the outer record expired
C25_Witness ==
    \E p \in Procs :
        /\ NestedOnSameKey(p)
        /\ ScopeLockCame
        /\ returned.waited
        /\ \E n \in Issued :
               Str(issued[n].token) = th[p].outer[2] /\ Expired(n)

\* C26: a lock() call takes one uuid, at its entry, and keeps its token
\* while it waits; the token it returns is the one it waited with, and in
\* the step in which it is returned it is the value the store holds under
\* the lock name.
C26_OneTokenPerCall ==
    [][/\ Acquires
             => /\ returned'.result = Str(issued'[Len(issued')].token)
                /\ store'[returned'.lock_name] # None
                /\ Str(store'[returned'.lock_name].val) = returned'.result
       /\ \A p \in Procs :
             th[p].pc = "sleep"
                 => /\ th'[p].pc = "sleep"
                           => th'[p].unlock_secret_token
                                  = th[p].unlock_secret_token
                    /\ (th'[p].pc # "sleep" /\ returned'.result.t = "str")
                           => returned'.result = th[p].unlock_secret_token
       /\ uuidCount' # uuidCount
             => /\ uuidCount' = uuidCount + 1
                /\ \A p \in Procs : th[p].pc = "sleep" => th'[p] = th[p]
      ]_vars

\* C26 witness: a lock() that had slept returned its token, and the store
\* holds it under the lock name
C26_Witness ==
    /\ LockCame
    /\ returned.waited
    /\ returned.attempts >= 2
    /\ returned.result.t = "str"
    /\ store[returned.lock_name] # None
    /\ Str(store[returned.lock_name].val) = returned.result

\* C27: the acquire loop alternates attempts and sleeps: a call that sleeps
\* has slept once less than it has sent conditional sets, and sleeps its
\* interval in effect; a call whose sleep is over has slept as often as it
\* has sent; a call that returned a token or False from attempt n has slept
\* n - 1 times; and a conditional set is sent only by a call at its entry
\* or by a call whose sleep is over, one per step, never by a call that
\* has returned.
C27_AttemptsAndSleepsAlternate ==
    /\ [](\A p \in Procs :
             th[p].pc = "sleep"
                 => /\ th[p].sleep > 0
                           => /\ th[p].sleeps = th[p].attempts - 1
                              /\ th[p].sleep = NumVal(th[p].interval)
                    /\ th[p].sleep <= 0 => th[p].sleeps = th[p].attempts)
    /\ []((LockCame /\ returned.result.t \in {"str", "bool"})
             => returned.sleeps = returned.attempts - 1)
    /\ [][/\ Sent("set")' <= 1
           /\ Sent("set")' = 1
                 => \E p \in Procs :
                        /\ \/ th[p].pc \in {"idle", "block"}
                           \/ th[p].pc = "sleep" /\ th[p].sleep <= 0
                        /\ \/ th'[p].attempts = th[p].attempts + 1
                           \/ returned'.attempts = th[p].attempts + 1]_vars

\* C27 witness: a lock() returned its token from its fourth attempt, after
\* three sleeps
C27_Witness ==
    /\ LockCame
    /\ returned.result.t = "str"
    /\ returned.attempts = 4
    /\ returned.sleeps = 3

\* C28: a lock() with a numeric block B and interval I comes to an end,
\* with a token or with False, and by then it has sent at most
\* ceil(B / I) + 1 conditional sets, also when the key is held throughout.
C28_TimedWaitEnds ==
    /\ [](\A p \in Procs :
             TimedWait(p)
                 => th[p].attempts
                        <= Ceil(NumVal(th[p].block), NumVal(th[p].interval)))
    /\ []((LockCame /\ returned.block.t = "num" /\ returned.attempts >= 1)
             => returned.attempts
                    <= Ceil(NumVal(returned.block),
                            NumVal(returned.interval)) + 1)
    /\ \A p \in Procs : TimedWait(p) ~> ~TimedWait(p)

\* C28 witness: a lock() with block 0.4 s and interval 0.1 s on a key that
\* stayed held returned False from its fifth conditional set
C28_Witness ==
    /\ TimedOut
    /\ returned.block = Num(400000)
    /\ returned.interval = Num(100000)
    /\ returned.attempts = 5
    /\ store[returned.lock_name] # None

\* C29: whatever the key, when a __call__ scope ends while its token is
\* live, the record of the key is gone from the store in that step.
C29_ScopeExitFreesKey ==
    [][\A p \in Procs :
          (/\ th[p].pc = "block"
           /\ th'[p].pc = "idle"
           /\ \E n \in Issued :
                  Str(issued[n].token) = th[p].unlock_secret_token /\ Live(n))
              => store'[th[p].lock_name] = None]_vars

\* C30: a lock() that is cancelled in its sleep ends in that step without
\* sending anything to the store, and its token is not in the store: the
\* store only ever holds tokens that a lock() returned (and the records of
\* other clients).
C30_CancelledWaitLeavesNothing ==
    /\ [](Cancelled
             => /\ returned.ops = <<>>
                /\ ~Stored(returned.unlock_secret_token))
    /\ [](\A k \in LockNames :
             store[k] # None
                 => \/ Str(store[k].val) \in IssuedTokens
                    \/ store[k].val = ForeignRecord(k).val)
    /\ [][Cancelled'
             => /\ store' = store
                /\ \A p \in Procs : th'[p].pc = "sleep" => th'[p] = th[p]
      ]_vars

\* C30 witness: a lock() with block=True that slept for a held key was
\* cancelled; the key is still held, by another token
C30_Witness ==
    /\ Cancelled
    /\ returned.waited
    /\ returned.block = Bool(TRUE)
    /\ returned.attempts >= 2
    /\ store[returned.lock_name] # None

\* C31: a step in which a lock() or an unlock() on key K sends commands to
\* the store leaves the record of every other key as it was, value and
\* remaining expiry, and a step whose conditional set is refused leaves
\* the whole keyspace, the record of K with it, as it was.
C31_OtherRecordsUntouched ==
    [][returned'.ops # <<>>
          => LET keys == IF returned'.op # "none"
                         THEN {returned'.lock_name}
                         ELSE {th'[p].lock_name :
                                   p \in {q \in Procs : th'[q] # th[q]}}
             IN  /\ \A j \in LockNames \ keys : store'[j] = store[j]
                 /\ (/\ \E i \in 1..Len(returned'.ops) :
                            returned'.ops[i] = "set"
                     /\ ~Acquires)
                        => store' = store]_vars

\* C31 witness: a conditional set on a held key was refused and its lock()
\* sleeps, while a record of the caller's own is stored under another key
C31_Witness ==
    \E p \in Procs :
        /\ th[p].pc = "sleep"
        /\ th[p].sleeps >= 1
        /\ Sent("set") = 1
        /\ store[th[p].lock_name] # None
        /\ store[th[p].lock_name].pttl < ForeignRecord(th[p].lock_name).pttl
        /\ \E j \in LockNames \ {th[p].lock_name} :
               store[j] # None /\ Str(store[j].val) \in IssuedTokens

\* C32 (as stated): every conditional set is sent with the lock name as
\* key, a token minted for it as value, set-only-if-absent, and an expiry
\* in milliseconds that equals the effective ttl in seconds times 1000.
C32_ExpiryIsTtlTimes1000 ==
    \A c \in SetsSent :
        /\ SetsTokenOnKey(c)
        /\ \A ttl \in TtlOf(c) : c.px * 1000 = ttl

\* C32 (amended): every conditional set is sent with the lock name as key,
\* a token minted for it as value, set-only-if-absent, and an expiry in
\* milliseconds that is the effective ttl in seconds times 1000 cut down to
\* a whole number: expiry <= ttl * 1000 < expiry + 1.
C32_ExpiryIsWholeMsOfTtl ==
    \A c \in SetsSent :
        /\ SetsTokenOnKey(c)
        /\ \A ttl \in TtlOf(c) :
               c.px * 1000 <= ttl /\ ttl < (c.px + 1) * 1000

\* C32 witness: a lock() with ttl 0.2505 s stored its token with the
\* expiry 250 ms
C32_Witness ==
    /\ LockCame
    /\ returned.result.t = "str"
    /\ returned.given[1] = Num(250500)
    /\ \E c \in SetsSent :
           c.px = 250 /\ store[c.key] = [val |-> c.value.v, pttl |-> 250]

\* C33: every conditional set that a lock() sends, its ttl having passed
\* the assertion of _prepare_lock, has an expiry of one millisecond or more.
C33_AcceptedTtlPositiveExpiry ==
    \A c \in SetsSent : c.px > 0

\* C34: the token of every conditional set on lock name N is "_LOCK_" + N +
\* "_" + S for the suffix S of one of the uuids taken so far, and a lock()
\* with block=True and neither ttl nor interval given waits without a
\* deadline, with the ttl and the interval of the client.
C34_TokenFormatAndDefaults ==
    /\ \A c \in SetsSent :
           \E n \in 1..uuidCount :
               c.value = Str(<<"_", "L", "O", "C", "K", "_">> \o c.key
                                 \o <<"_">> \o UuidHex(n))
    /\ \A p \in Procs :
           (/\ th[p].pc = "sleep"
            /\ th[p].block = Bool(TRUE)
            /\ th[p].given = <<None, None>>)
               => /\ th[p].end_wait = None
                  /\ th[p].ttl = _ttl
                  /\ th[p].interval = _interval

====
